---- MODULE Spec2Model ----
(***************************************************************************)
(* LightScene (custom_components/lightscene/light.py): the state-          *)
(* reconciliation and concurrency core of one LightScene entity.           *)
(*                                                                         *)
(* The entity runs on one asyncio event loop.  Coroutines run without      *)
(* interruption between two suspension points; a suspended coroutine is    *)
(* resumed through the loop's FIFO ready queue (call_soon).  The model     *)
(* keeps that queue (ready) and one action per code region between two     *)
(* suspension points.  A code region that is modelled in several pieces    *)
(* (so that the order of its effects is observable) holds the variable cur *)
(* until it reaches its suspension point: while cur # NoProc nothing else  *)
(* can run, exactly as in the event loop.                                  *)
(*                                                                         *)
(* Everything that runs goes through the ready queue: a new service call,  *)
(* the first and the last step of a reproduce task, the callback of        *)
(* wait_for's timer and the handlers of the platform's events are appended *)
(* to it when they become due, and run when they reach its head.           *)
(*                                                                         *)
(* Wake-up order is asyncio's (Python 3.12 and later, the interpreter of   *)
(* every Home Assistant release since 2024.4): the done-callbacks of a     *)
(* task run in registration order, so the coroutine that awaits the task   *)
(* in wait_for (registered when the task was created) is resumed before    *)
(* the coroutines that await it in _drain_reproduce_task.                  *)
(***************************************************************************)
EXTENDS Integers, Sequences, FiniteSets, TLC

(* ----------------------------- bounds ---------------------------------- *)
MaxCalls == 4     \* turn_on / turn_off service calls made in one behaviour
MaxActs == 1      \* scene-activation events routed to the entity
MaxEvents == 1    \* member state-change events delivered to the entity
MaxStimuli == 4   \* calls and events of all three kinds in one behaviour
MaxLiveStimuli == 3  \* the same, in the specifications other than Spec
MaxTimeouts == 1  \* reproductions that exceed REPRODUCE_TIMEOUT_SECONDS
MaxFailures == 1  \* reproductions in which async_reproduce_state raises
MaxExternalCancels == 1  \* service calls cancelled by their caller
MaxPairStimuli == 2      \* calls and events of each of two LightScenes

(* ------------------------- program constants --------------------------- *)
DEFAULT_BRIGHTNESS == 255

(* --------------------------- scene snapshot ---------------------------- *)
\* scene_config.states of the modelled scene: two lights declared on with
\* brightness 100 and 200 and one switch (no brightness attribute).
Members == {"light.a", "light.b", "switch.c"}

NoBrightness == -1   \* attribute absent (Python None)

scene_config ==
    [m \in Members |->
        CASE m = "light.a"  -> [state |-> "on", brightness |-> 100]
          [] m = "light.b"  -> [state |-> "on", brightness |-> 200]
          [] m = "switch.c" -> [state |-> "on", brightness |-> NoBrightness]]

IsLight(m) == m \in {"light.a", "light.b"}

\* __init__, lines 242-248: per-entity baseline of every member light of
\* the snapshot cfg
BrightnessLevels(cfg) ==
    [m \in {x \in Members : IsLight(x)} |->
        IF cfg[m].brightness = NoBrightness
        THEN (IF cfg[m].state = "on" THEN 255 ELSE 0)
        ELSE cfg[m].brightness]

\* __init__, lines 241-251: the lights whose brightness enters the average
BrightnessValues(cfg) ==
    {m \in DOMAIN BrightnessLevels(cfg) :
        cfg[m].state = "on" /\ BrightnessLevels(cfg)[m] > 0}

\* the same for the scene of the entity
scene_brightness_levels == BrightnessLevels(scene_config)

scene_brightness_values == BrightnessValues(scene_config)

RECURSIVE SumOver(_, _)
SumOver(f, S) ==
    IF S = {} THEN 0
    ELSE LET x == CHOOSE y \in S : TRUE IN f[x] + SumOver(f, S \ {x})

\* variant: every member light enters the average, whatever its state and
\* level
SceneBrightnessOfAllLights(cfg) ==
    IF BrightnessValues(cfg) # {}
    THEN SumOver(BrightnessLevels(cfg), DOMAIN BrightnessLevels(cfg))
            \div Cardinality(DOMAIN BrightnessLevels(cfg))
    ELSE DEFAULT_BRIGHTNESS

\* __init__, lines 253-262: self._has_brightness_control and
\* self._scene_brightness
HasBrightnessControl(cfg) == BrightnessValues(cfg) # {}

SceneBrightness(cfg) ==
    IF BrightnessValues(cfg) # {}
    THEN SumOver(BrightnessLevels(cfg), BrightnessValues(cfg))
            \div Cardinality(BrightnessValues(cfg))
    ELSE DEFAULT_BRIGHTNESS

has_brightness_control == HasBrightnessControl(scene_config)

scene_brightness == SceneBrightness(scene_config)

Max(a, b) == IF a > b THEN a ELSE b
Min(a, b) == IF a < b THEN a ELSE b

\* async_turn_on, lines 393-396: kwargs.get(ATTR_BRIGHTNESS), defaulting to
\* the baseline.
TargetBrightness(arg) == IF arg = NoBrightness THEN scene_brightness ELSE arg

\* The requested brightness values r for which the double product
\* initial * (r / baseline) of line 428 is below the exact quotient
\* initial * r / baseline, an integer, so that int() yields one less (for
\* instance 100 * (29 / 100) = 28.999999999999996).  IEEE 754 binary64
\* arithmetic, tabulated for the levels and baselines of Snapshots; in
\* every other case of that domain int() yields the floor of the exact
\* quotient.
FloatShortfall(initial, baseline) ==
    CASE <<initial, baseline>> \in {<<100, 50>>, <<200, 50>>, <<100, 100>>,
                                    <<200, 100>>, <<200, 200>>} ->
            {29, 57, 58, 113, 114, 115, 116, 201, 203, 205, 207, 226, 228,
             230, 232, 251, 253, 255}
      [] <<initial, baseline>> \in {<<100, 150>>, <<200, 150>>} ->
            {87, 171, 174}
      [] <<initial, baseline>> = <<100, 200>> ->
            {58, 114, 116, 226, 228, 230, 232}
      [] OTHER -> {}

\* async_turn_on, lines 401 and 428: int(initial * scale_factor), where
\* scale_factor = target / baseline is a double
ScaleFactorApplied(initial, target, baseline) ==
    (initial * target) \div baseline
        - (IF target \in FloatShortfall(initial, baseline) THEN 1 ELSE 0)

\* variant: the scaled brightness is not clamped from below
ClampedUnbounded(b) == Min(255, b)

\* async_turn_on, line 431: max(1, min(255, scaled_brightness))
Clamped(b) == Max(1, Min(255, b))

\* async_turn_on, lines 428-431, for the scene of the entity
ScaledBrightness(initial, target) ==
    Clamped(ScaleFactorApplied(initial, target, scene_brightness))

\* __init__, lines 240-262: the fields the constructor computes from the
\* snapshot cfg
Initialized(cfg) ==
    [scene_brightness |-> SceneBrightness(cfg),
     has_brightness_control |-> HasBrightnessControl(cfg),
     scene_brightness_levels |-> BrightnessLevels(cfg),
     done |-> TRUE]

\* variant: every light with a positive level is scaled, whether or not the
\* scene has brightness control
ScaledStatesUnconditional(cfg, base, arg) ==
    [m \in Members |->
        IF /\ IsLight(m)
           /\ base.scene_brightness_levels[m] > 0
        THEN [state |-> cfg[m].state,
              brightness |->
                  Clamped(ScaleFactorApplied(
                      base.scene_brightness_levels[m],
                      IF arg = NoBrightness THEN base.scene_brightness ELSE arg,
                      base.scene_brightness))]
        ELSE cfg[m]]

\* async_turn_on, lines 393-443: states_to_reproduce for the snapshot cfg,
\* the fields base of the entity and the requested brightness arg
ScaledStates(cfg, base, arg) ==
    [m \in Members |->
        IF /\ base.has_brightness_control
           /\ IsLight(m)
           /\ base.scene_brightness_levels[m] > 0
        THEN [state |-> cfg[m].state,
              brightness |->
                  Clamped(ScaleFactorApplied(
                      base.scene_brightness_levels[m],
                      IF arg = NoBrightness THEN base.scene_brightness ELSE arg,
                      base.scene_brightness))]
        ELSE cfg[m]]

\* async_turn_on, lines 415-443: states_to_reproduce
StatesToReproduce(arg) ==
    [m \in Members |->
        IF /\ has_brightness_control
           /\ IsLight(m)
           /\ scene_brightness_levels[m] > 0
        THEN [state |-> scene_config[m].state,
              brightness |-> ScaledBrightness(scene_brightness_levels[m],
                                              TargetBrightness(arg))]
        ELSE scene_config[m]]

\* the scene snapshots and the requested brightness values of the
\* specification of the scaler
LightValues == {NoBrightness, 0, 1, 100, 200, 255}
Snapshots ==
    {cfg \in [Members -> [state : {"on", "off"}, brightness : LightValues]] :
        cfg["switch.c"] = [state |-> "on", brightness |-> NoBrightness]}
RequestedValues == 1..255

\* async_turn_off, lines 476-478: off_states
OffStates == [m \in Members |-> [state |-> "off", brightness |-> NoBrightness]]

\* requested brightness of the turn_on calls of the model: half the baseline
Requests == {75}

(* ------------------------------ processes ------------------------------ *)
Calls == 1..MaxCalls      \* async_turn_on / async_turn_off invocations
Acts == 1..MaxActs        \* async_process_scene_activation_event invocations
Events == 1..MaxEvents    \* async_process_state_changed_event invocations

VARIABLES
    focus,                    \* the LightScene the variables below describe
    other                     \* the state of the second LightScene

\* Context ids.  Context() mints a fresh id for every turn_on of every
\* LightScene; an activation event carries the id of the scene.turn_on
\* service call; every other actor of the platform has an id of its own.
NoContext == <<"none", 0>>
CallTag(c) == <<"turn_on", focus, c>>
ActTag(a) == <<"activation", a>>
ExternalTag == <<"external", 0>>

NoProc == [typ |-> "none", id |-> 0]
CallProc(c) == [typ |-> "call", id |-> c]
ActProc(a) == [typ |-> "act", id |-> a]
EvtProc(e) == [typ |-> "evt", id |-> e]
TaskProc(t) == [typ |-> "task", id |-> t]
TimerProc(c) == [typ |-> "timer", id |-> c]

NoTask == 0               \* _reproduce_task is None
NoStates == [m \in Members |-> [state |-> "none", brightness |-> NoBrightness]]
NoWrite == [is_on |-> FALSE, brightness |-> NoBrightness, written |-> FALSE]
NoBaseline == [scene_brightness |-> 0, has_brightness_control |-> FALSE,
               scene_brightness_levels |-> <<>>, done |-> FALSE]

VARIABLES
    is_on,                    \* self._is_on
    brightness,               \* self._brightness
    context,                  \* self._context (its id)
    internal_contexts,        \* self._internal_contexts
    busy_reproducing_states,  \* self._busy_reproducing_states: TRUE = set
    busy_waiters,             \* coroutines suspended in Event.wait()
    reproduce_task,           \* self._reproduce_task
    cancelled_reproduce,      \* self._cancelled_reproduce
    task_state,               \* the reproduce task created by each call
    task_context,             \* context= argument of async_reproduce_state
    task_states,              \* states argument of async_reproduce_state
    task_waiters,             \* coroutines awaiting the task, in order
    last_reproduce,           \* the task created last
    pc,                       \* position of every turn_on / turn_off call
    kind,                     \* "on" / "off"
    arg,                      \* kwargs.get(ATTR_BRIGHTNESS)
    timer,                    \* the timer of the call's wait_for
    timed_out,                \* wait_for's timeout of the call has expired
    outcome,                  \* how the call ended
    started,                  \* reproduce tasks created by the call
    wrote,                    \* what the call passed to async_write_ha_state
    apc,                      \* position of every activation handler
    evt_tag,                  \* context id of new_state of every event
    evt_result,               \* what the state-changed handler did with it
    published,                \* last state written by async_write_ha_state
    cancel_origin,            \* who has asked each reproduce task to cancel
    ext_cancel,               \* the call's own task was cancelled from outside
    snapshot,                 \* scaler: scene_config.states given to __init__
    requested,                \* scaler: kwargs.get(ATTR_BRIGHTNESS)
    baseline,                 \* scaler: what __init__ computed
    reproduced,               \* scaler: states_to_reproduce
    removed,                  \* the entity has been removed (async_remove)
    routing,                  \* manager: the bus event and what became of it
    ready,                    \* the event loop's ready queue
    cur                       \* the coroutine that is running right now

vars == <<is_on, brightness, context, internal_contexts,
          busy_reproducing_states, busy_waiters, reproduce_task,
          cancelled_reproduce, task_state, task_context, task_states,
          task_waiters, last_reproduce, pc, kind, arg, timer, timed_out,
          outcome, started, wrote,
          apc, evt_tag, evt_result, published, cancel_origin, ext_cancel,
          snapshot, requested, baseline, reproduced, removed, routing,
          focus, other, ready, cur>>

entity_vars == <<is_on, brightness, context, internal_contexts, published>>
gate_vars == <<busy_reproducing_states, busy_waiters>>
handle_vars == <<reproduce_task, cancelled_reproduce>>
task_vars == <<task_state, task_context, task_states, task_waiters,
               last_reproduce>>
call_vars == <<pc, kind, arg, timer, timed_out, outcome, started, wrote>>
event_vars == <<apc, evt_tag, evt_result>>
cancel_vars == <<cancel_origin, ext_cancel>>
scaler_vars == <<snapshot, requested, baseline, reproduced>>
pair_vars == <<focus, other>>
aux_vars == <<scaler_vars, removed, routing, pair_vars>>

\* everything LightScene.__init__ creates and the coroutines of the
\* instance
instance_vars ==
    <<is_on, brightness, context, internal_contexts,
      busy_reproducing_states, busy_waiters, reproduce_task,
      cancelled_reproduce, task_state, task_context, task_states,
      task_waiters, last_reproduce, pc, kind, arg, timer, timed_out,
      outcome, started, wrote, apc, evt_tag, evt_result, published,
      cancel_origin, ext_cancel, ready, cur>>

\* the state of the entity and of the event loop after
\* LightScene.__init__, lines 221-262
EntityInit ==
    /\ is_on = FALSE
    /\ brightness = scene_brightness
    /\ context = NoContext
    /\ internal_contexts = {}
    /\ busy_reproducing_states = TRUE
    /\ busy_waiters = <<>>
    /\ reproduce_task = NoTask
    /\ cancelled_reproduce = FALSE
    /\ task_state = [c \in Calls |-> "none"]
    /\ task_context = [c \in Calls |-> NoContext]
    /\ task_states = [c \in Calls |-> NoStates]
    /\ task_waiters = [c \in Calls |-> <<>>]
    /\ last_reproduce = NoTask
    /\ pc = [c \in Calls |-> "new"]
    /\ kind = [c \in Calls |-> "none"]
    /\ arg = [c \in Calls |-> NoBrightness]
    /\ timer = [c \in Calls |-> "off"]
    /\ timed_out = [c \in Calls |-> FALSE]
    /\ outcome = [c \in Calls |-> "none"]
    /\ started = [c \in Calls |-> 0]
    /\ wrote = [c \in Calls |-> NoWrite]
    /\ apc = [a \in Acts |-> "new"]
    /\ evt_tag = [e \in Events |-> NoContext]
    /\ evt_result = [e \in Events |-> "new"]
    /\ published = NoWrite
    /\ cancel_origin = [c \in Calls |-> {}]
    /\ ext_cancel = [c \in Calls |-> FALSE]
    /\ removed = FALSE
    /\ ready = <<>>
    /\ cur = NoProc
    /\ focus = 1
    /\ other = instance_vars

\* no event on the bus
NoRouting == [state |-> "none", event |-> <<>>, delivered |-> <<>>,
              log |-> "none"]

\* LightScene.__init__, lines 221-262, for the scene of the model
Init ==
    /\ EntityInit
    /\ snapshot = scene_config
    /\ requested = NoBrightness
    /\ baseline = Initialized(scene_config)
    /\ reproduced = NoStates
    /\ routing = NoRouting

(* --------------------------- asyncio helpers --------------------------- *)
\* asyncio.Task.done()
TaskDone(t) == task_state[t] \in {"ok", "failed", "cancelled"}

\* the reproduction is neither completed, failed nor cancelled yet:
\*   created            its first step is in the ready queue
\*   created_cancel     the same, and its cancellation was requested
\*   running            suspended in async_reproduce_state
\*   cancelling         the same, cancellation requested, winding down
\*   settled_pending    async_reproduce_state is over (it returned or
\*                      raised); the last step is in the ready queue
\*   cancelled_pending  its last step is in the ready queue and raises
\*                      CancelledError
InFlight(t) ==
    task_state[t] \in {"created", "created_cancel", "running", "cancelling",
                       "settled_pending", "cancelled_pending"}

\* "task is None or task.done()", lines 511 and 524
NothingToCancel == reproduce_task = NoTask \/ TaskDone(reproduce_task)

\* q without the item p (a cancelled handle of the loop is skipped)
RECURSIVE Without(_, _)
Without(q, p) ==
    IF q = <<>> THEN <<>>
    ELSE IF Head(q) = p THEN Without(Tail(q), p)
    ELSE <<Head(q)>> \o Without(Tail(q), p)

\* the coroutine at the head of the ready queue is resumed
Runs(p) == cur = NoProc /\ ready # <<>> /\ Head(ready) = p

\* asyncio.Event.set(): wakes every waiter, in order, when the event was
\* clear; nothing when it was set already.  q is the ready queue so far.
EventSet(q) ==
    /\ busy_reproducing_states' = TRUE
    /\ busy_waiters' = <<>>
    /\ ready' = IF busy_reproducing_states THEN q ELSE q \o busy_waiters

\* t was asked to cancel by who: a superseding call's drain ("supersede"),
\* wait_for's timer ("timeout"), the drain after a timeout
\* ("timeout_drain") or the caller of the service call ("external")
Asked(t, who) == [cancel_origin EXCEPT ![t] = @ \cup {who}]

\* asyncio.Task.cancel() on a task that is not done: a suspended task winds
\* down, a task whose step is in the ready queue gets CancelledError there
Cancelled(t) ==
    [task_state EXCEPT ![t] =
        CASE @ = "created" -> "created_cancel"
          [] @ = "running" -> "cancelling"
          [] @ = "settled_pending" -> "cancelled_pending"
          [] OTHER -> @]

(* ------------------------- the platform (environment) ------------------ *)
\* calls made and events delivered so far
Stimuli ==
    Cardinality({c \in Calls : pc[c] # "new"})
        + Cardinality({a \in Acts : apc[a] # "new"})
        + Cardinality({e \in Events : evt_result[e] # "new"})

\* The platform calls light.turn_on / light.turn_off: the call becomes a
\* task of the event loop.  Calls are numbered in the order they are made.
Invoke(c, k, b) ==
    /\ cur = NoProc
    /\ ~removed
    /\ Stimuli < MaxStimuli
    /\ pc[c] = "new"
    /\ \A d \in Calls : d < c => pc[d] # "new"
    /\ pc' = [pc EXCEPT ![c] = "queued"]
    /\ kind' = [kind EXCEPT ![c] = k]
    /\ arg' = [arg EXCEPT ![c] = b]
    /\ ready' = Append(ready, CallProc(c))
    /\ UNCHANGED <<entity_vars, gate_vars, handle_vars, task_vars, timer, timed_out,
                   outcome, started, wrote, event_vars, cur>>
    /\ UNCHANGED cancel_vars
    /\ UNCHANGED aux_vars

\* reproductions that have exceeded the timeout, or have failed, so far
Timeouts ==
    Cardinality({c \in Calls : timer[c] = "due" \/ timed_out[c]
                                  \/ outcome[c] = "timeout"})
Failures == Cardinality({t \in Calls : task_state[t] = "failed"})

\* the task is done: the coroutines that await it are scheduled, in the
\* order they began to wait
TaskEnds(t, result) ==
    /\ task_state' = [task_state EXCEPT ![t] = result]
    /\ ready' = Tail(ready) \o task_waiters[t]
    /\ task_waiters' = [task_waiters EXCEPT ![t] = <<>>]

\* the first step of the reproduce task: it suspends in
\* async_reproduce_state, or raises CancelledError at once when it was
\* cancelled before it ran
TaskStart(t) ==
    /\ Runs(TaskProc(t))
    /\ task_state[t] \in {"created", "created_cancel"}
    /\ IF task_state[t] = "created"
       THEN /\ task_state' = [task_state EXCEPT ![t] = "running"]
            /\ ready' = Tail(ready)
            /\ UNCHANGED task_waiters
       ELSE TaskEnds(t, "cancelled")
    /\ UNCHANGED <<entity_vars, gate_vars, handle_vars, task_context,
                   task_states, last_reproduce, call_vars,
                   event_vars, cur>>
    /\ UNCHANGED cancel_vars
    /\ UNCHANGED aux_vars

\* the platform has applied the states (or failed to): the task's last step
\* is scheduled
TaskSettle(t) ==
    /\ cur = NoProc
    /\ task_state[t] = "running"
    /\ task_state' = [task_state EXCEPT ![t] = "settled_pending"]
    /\ ready' = Append(ready, TaskProc(t))
    /\ UNCHANGED <<entity_vars, gate_vars, handle_vars, task_context,
                   task_states, task_waiters, last_reproduce, call_vars,
                   event_vars, cur>>
    /\ UNCHANGED cancel_vars
    /\ UNCHANGED aux_vars

\* the cancellation has reached the task: its last step is scheduled
TaskCancelLand(t) ==
    /\ cur = NoProc
    /\ task_state[t] = "cancelling"
    /\ task_state' = [task_state EXCEPT ![t] = "cancelled_pending"]
    /\ ready' = Append(ready, TaskProc(t))
    /\ UNCHANGED <<entity_vars, gate_vars, handle_vars, task_context,
                   task_states, task_waiters, last_reproduce, call_vars,
                   event_vars, cur>>
    /\ UNCHANGED cancel_vars
    /\ UNCHANGED aux_vars

\* the last step of the reproduce task: async_reproduce_state returns
\* ("ok"), raises ("failed") or the task is cancelled
TaskFinish(t, result) ==
    /\ Runs(TaskProc(t))
    /\ \/ task_state[t] = "settled_pending" /\ result = "ok"
       \/ /\ task_state[t] = "settled_pending" /\ result = "failed"
          /\ Failures < MaxFailures
       \/ task_state[t] = "cancelled_pending" /\ result = "cancelled"
    /\ TaskEnds(t, result)
    /\ UNCHANGED <<entity_vars, gate_vars, handle_vars, task_context,
                   task_states, last_reproduce, call_vars,
                   event_vars, cur>>
    /\ UNCHANGED cancel_vars
    /\ UNCHANGED aux_vars

\* asyncio.wait_for, line 542: REPRODUCE_TIMEOUT_SECONDS have passed; the
\* timer's callback is scheduled
TimeoutDue(c) ==
    /\ cur = NoProc
    /\ pc[c] = "reproducing"
    /\ timer[c] = "armed"
    /\ Timeouts < MaxTimeouts
    /\ timer' = [timer EXCEPT ![c] = "due"]
    /\ ready' = Append(ready, TimerProc(c))
    /\ UNCHANGED <<entity_vars, gate_vars, handle_vars, task_vars, pc, kind,
                   arg, timed_out, outcome, started, wrote, event_vars, cur>>
    /\ UNCHANGED cancel_vars
    /\ UNCHANGED aux_vars

\* the timer's callback: it cancels the call's task, which cancels the
\* reproduce task it awaits when that is not done yet
TimeoutFire(c) ==
    /\ Runs(TimerProc(c))
    /\ ready' = Tail(ready)
    /\ timer' = [timer EXCEPT ![c] = "off"]
    /\ timed_out' = [timed_out EXCEPT ![c] = TRUE]
    /\ task_state' = IF InFlight(c) THEN Cancelled(c) ELSE task_state
    /\ UNCHANGED <<entity_vars, gate_vars, handle_vars, task_context,
                   task_states, task_waiters, last_reproduce, pc, kind, arg,
                   outcome, started, wrote, event_vars, cur>>
    /\ cancel_origin' = IF InFlight(c) THEN Asked(c, "timeout")
                        ELSE cancel_origin
    /\ UNCHANGED ext_cancel
    /\ UNCHANGED aux_vars

\* calls cancelled from outside so far
ExternalCancels == Cardinality({c \in Calls : ext_cancel[c]})

\* The caller of a service call cancels it while the call awaits its
\* reproduction in wait_for: the cancellation is passed on to the reproduce
\* task when that is not done, and is thrown into the call when it resumes.
ExternalCancel(c) ==
    /\ cur = NoProc
    /\ pc[c] = "reproducing"
    /\ ~ext_cancel[c]
    /\ ExternalCancels < MaxExternalCancels
    /\ ext_cancel' = [ext_cancel EXCEPT ![c] = TRUE]
    /\ task_state' = IF InFlight(c) THEN Cancelled(c) ELSE task_state
    /\ cancel_origin' = IF InFlight(c) THEN Asked(c, "external")
                        ELSE cancel_origin
    /\ UNCHANGED <<entity_vars, gate_vars, handle_vars, task_context,
                   task_states, task_waiters, last_reproduce, call_vars,
                   event_vars, ready, cur>>
    /\ UNCHANGED aux_vars

\* A scene.turn_on service call for this entity's scene is routed to
\* async_process_scene_activation_event (manager, lines 115-124).
ActivationEvent(a) ==
    /\ cur = NoProc
    /\ ~removed
    /\ Stimuli < MaxStimuli
    /\ apc[a] = "new"
    /\ \A b \in Acts : b < a => apc[b] # "new"
    /\ apc' = [apc EXCEPT ![a] = "queued"]
    /\ ready' = Append(ready, ActProc(a))
    /\ UNCHANGED <<entity_vars, gate_vars, handle_vars, task_vars, call_vars,
                   evt_tag, evt_result, cur>>
    /\ UNCHANGED cancel_vars
    /\ UNCHANGED aux_vars

\* context ids a state-changed event of a member entity can carry: one the
\* entity has minted or adopted so far, one of another actor, or none
\* (new_state is None)
MintedTags ==
    {CallTag(c) : c \in {d \in Calls : kind[d] = "on" /\ wrote[d].written}}
        \cup {ActTag(a) : a \in {b \in Acts : apc[b] # "new"}}

\* the ids the second LightScene has minted: its reproductions change
\* members the two scenes share.  Positions 15 and 21 of instance_vars are
\* kind and wrote.
OtherMintedTags ==
    {<<"turn_on", 3 - focus, c>> :
        c \in {d \in Calls : other[15][d] = "on" /\ other[21][d].written}}

EventTags == MintedTags \cup OtherMintedTags \cup {ExternalTag, NoContext}

\* async_track_state_change_event, lines 312-318: a member entity changed
StateChangedEvent(e, tag) ==
    /\ cur = NoProc
    /\ ~removed
    /\ Stimuli < MaxStimuli
    /\ evt_result[e] = "new"
    /\ \A f \in Events : f < e => evt_result[f] # "new"
    /\ evt_tag' = [evt_tag EXCEPT ![e] = tag]
    /\ evt_result' = [evt_result EXCEPT ![e] = "queued"]
    /\ ready' = Append(ready, EvtProc(e))
    /\ UNCHANGED <<entity_vars, gate_vars, handle_vars, task_vars, call_vars,
                   apc, cur>>
    /\ UNCHANGED cancel_vars
    /\ UNCHANGED aux_vars

(* ------------------------ async_turn_on / async_turn_off --------------- *)
\* variant: the predecessor is cancelled but not awaited; the flag is reset
\* and the gate opened at once
CancelInFlightNoAwait(c) ==
    /\ Runs(CallProc(c))
    /\ pc[c] = "queued"
    /\ task_state' = IF NothingToCancel THEN task_state
                     ELSE Cancelled(reproduce_task)
    /\ cancelled_reproduce' = FALSE
    /\ EventSet(Tail(ready))
    /\ pc' = [pc EXCEPT ![c] = "body"]
    /\ cur' = CallProc(c)
    /\ UNCHANGED <<entity_vars, reproduce_task, task_context, task_states,
                   task_waiters, last_reproduce, kind, arg, timer, timed_out,
                   outcome, started, wrote, event_vars>>
    /\ cancel_origin' = IF NothingToCancel THEN cancel_origin
                        ELSE Asked(reproduce_task, "supersede")
    /\ UNCHANGED ext_cancel
    /\ UNCHANGED aux_vars

\* variant: the call neither cancels its predecessor nor waits for the gate
CancelInFlightSkipped(c) ==
    /\ Runs(CallProc(c))
    /\ pc[c] = "queued"
    /\ pc' = [pc EXCEPT ![c] = "body"]
    /\ cur' = CallProc(c)
    /\ ready' = Tail(ready)
    /\ UNCHANGED <<entity_vars, gate_vars, handle_vars, task_vars, kind, arg,
                   timer, timed_out, outcome, started, wrote, event_vars>>
    /\ UNCHANGED cancel_vars
    /\ UNCHANGED aux_vars

\* _cancel_in_flight, lines 510-516, and _drain_reproduce_task, lines
\* 523-529, up to "await task"
CancelInFlight(c) ==
    /\ Runs(CallProc(c))
    /\ pc[c] = "queued"
    /\ IF NothingToCancel
       THEN /\ pc' = [pc EXCEPT ![c] = "wait_gate"]
            /\ cur' = CallProc(c)
            /\ ready' = Tail(ready)
            /\ UNCHANGED <<handle_vars, task_state, task_waiters>>
       ELSE /\ cancelled_reproduce' = TRUE
            /\ task_state' = Cancelled(reproduce_task)
            /\ task_waiters' = [task_waiters EXCEPT ![reproduce_task] =
                                    Append(@, CallProc(c))]
            /\ pc' = [pc EXCEPT ![c] = "draining"]
            /\ ready' = Tail(ready)
            /\ UNCHANGED <<reproduce_task, cur>>
    /\ UNCHANGED <<entity_vars, gate_vars, task_context, task_states,
                   last_reproduce, kind, arg, timer, timed_out, outcome, started,
                   wrote, event_vars>>
    /\ cancel_origin' = IF NothingToCancel THEN cancel_origin
                        ELSE Asked(reproduce_task, "supersede")
    /\ UNCHANGED ext_cancel
    /\ UNCHANGED aux_vars

\* _drain_reproduce_task, lines 530-533, then _cancel_in_flight, lines
\* 517-519: the awaited task is done
DrainResume(c) ==
    /\ Runs(CallProc(c))
    /\ pc[c] = "draining"
    /\ reproduce_task' = NoTask
    /\ cancelled_reproduce' = FALSE
    /\ EventSet(Tail(ready))
    /\ pc' = [pc EXCEPT ![c] = "wait_gate"]
    /\ cur' = CallProc(c)
    /\ UNCHANGED <<entity_vars, task_vars, kind, arg, timer, timed_out, outcome,
                   started, wrote, event_vars>>
    /\ UNCHANGED cancel_vars
    /\ UNCHANGED aux_vars

\* "await self._busy_reproducing_states.wait()", lines 381 and 468:
\* Event.wait() returns at once when the event is set and suspends otherwise
WaitGate(c) ==
    /\ cur = CallProc(c)
    /\ pc[c] = "wait_gate"
    /\ IF busy_reproducing_states
       THEN /\ pc' = [pc EXCEPT ![c] = "body"]
            /\ UNCHANGED <<busy_waiters, cur>>
       ELSE /\ pc' = [pc EXCEPT ![c] = "gate"]
            /\ busy_waiters' = Append(busy_waiters, CallProc(c))
            /\ cur' = NoProc
    /\ UNCHANGED <<entity_vars, busy_reproducing_states, handle_vars,
                   task_vars, kind, arg, timer, timed_out, outcome, started, wrote,
                   event_vars, ready>>
    /\ UNCHANGED cancel_vars
    /\ UNCHANGED aux_vars

\* Event.wait() resumes after set(); it does not look at the event again
GateResume(c) ==
    /\ Runs(CallProc(c))
    /\ pc[c] = "gate"
    /\ pc' = [pc EXCEPT ![c] = "body"]
    /\ cur' = CallProc(c)
    /\ ready' = Tail(ready)
    /\ UNCHANGED <<entity_vars, gate_vars, handle_vars, task_vars, kind, arg,
                   timer, timed_out, outcome, started, wrote, event_vars>>
    /\ UNCHANGED cancel_vars
    /\ UNCHANGED aux_vars

\* variant: the state is set but not written before the reproduction starts
TurnOnBodyUnpublished(c) ==
    /\ cur = CallProc(c)
    /\ pc[c] = "body"
    /\ kind[c] = "on"
    /\ context' = CallTag(c)
    /\ internal_contexts' = internal_contexts \cup {CallTag(c)}
    /\ brightness' = IF has_brightness_control
                     THEN TargetBrightness(arg[c])
                     ELSE brightness
    /\ is_on' = TRUE
    /\ pc' = [pc EXCEPT ![c] = "start"]
    /\ UNCHANGED <<gate_vars, handle_vars, task_vars, kind, arg, timer, timed_out,
                   outcome, started, wrote, published, event_vars, ready, cur>>
    /\ UNCHANGED cancel_vars
    /\ UNCHANGED aux_vars

\* async_turn_on, lines 384-446
TurnOnBody(c) ==
    /\ cur = CallProc(c)
    /\ pc[c] = "body"
    /\ kind[c] = "on"
    /\ context' = CallTag(c)
    /\ internal_contexts' = internal_contexts \cup {CallTag(c)}
    /\ brightness' = IF has_brightness_control
                     THEN TargetBrightness(arg[c])
                     ELSE brightness
    /\ is_on' = TRUE
    /\ published' = [is_on |-> is_on', brightness |-> brightness',
                     written |-> TRUE]
    /\ wrote' = [wrote EXCEPT ![c] = published']
    /\ pc' = [pc EXCEPT ![c] = "start"]
    /\ UNCHANGED <<gate_vars, handle_vars, task_vars, kind, arg, timer, timed_out,
                   outcome, started, event_vars, ready, cur>>
    /\ UNCHANGED cancel_vars
    /\ UNCHANGED aux_vars

\* variant: the transition to off forgets the active context as well
SetOffDropsContext ==
    /\ is_on' = FALSE
    /\ internal_contexts' = {}
    /\ context' = NoContext
    /\ published' = [is_on |-> FALSE, brightness |-> brightness,
                     written |-> TRUE]
    /\ UNCHANGED brightness

\* variant: the self-caused tags survive the transition to off
SetOffKeepsTags ==
    /\ is_on' = FALSE
    /\ published' = [is_on |-> FALSE, brightness |-> brightness,
                     written |-> TRUE]
    /\ UNCHANGED <<brightness, context, internal_contexts>>

\* _set_off, lines 502-504
SetOff ==
    /\ is_on' = FALSE
    /\ internal_contexts' = {}
    /\ published' = [is_on |-> FALSE, brightness |-> brightness,
                     written |-> TRUE]
    /\ UNCHANGED <<brightness, context>>

\* variant: the early return of lines 471-472 is in force (a turn_off of a
\* LightScene that is off does nothing)
TurnOffBodyEarlyReturn(c) ==
    /\ cur = CallProc(c)
    /\ pc[c] = "body"
    /\ kind[c] = "off"
    /\ IF is_on
       THEN /\ SetOff
            /\ wrote' = [wrote EXCEPT ![c] = published']
            /\ pc' = [pc EXCEPT ![c] = "start"]
       ELSE /\ pc' = [pc EXCEPT ![c] = "finally"]
            /\ UNCHANGED <<entity_vars, wrote>>
    /\ UNCHANGED <<gate_vars, handle_vars, task_vars, kind, arg, timer, timed_out,
                   outcome, started, event_vars, ready, cur>>
    /\ UNCHANGED cancel_vars
    /\ UNCHANGED aux_vars

\* async_turn_off, lines 476-480
TurnOffBody(c) ==
    /\ cur = CallProc(c)
    /\ pc[c] = "body"
    /\ kind[c] = "off"
    /\ SetOff
    /\ wrote' = [wrote EXCEPT ![c] = published']
    /\ pc' = [pc EXCEPT ![c] = "start"]
    /\ UNCHANGED <<gate_vars, handle_vars, task_vars, kind, arg, timer, timed_out,
                   outcome, started, event_vars, ready, cur>>
    /\ UNCHANGED cancel_vars
    /\ UNCHANGED aux_vars

\* the states the call hands to _start_reproduce, lines 448 and 482
StatesOf(c) == IF kind[c] = "on" THEN StatesToReproduce(arg[c]) ELSE OffStates

\* _start_reproduce, lines 537-544, up to "await asyncio.wait_for"
StartReproduce(c) ==
    /\ cur = CallProc(c)
    /\ pc[c] = "start"
    /\ busy_reproducing_states' = FALSE
    /\ reproduce_task' = c
    /\ task_state' = [task_state EXCEPT ![c] = "created"]
    /\ task_context' = [task_context EXCEPT ![c] = context]
    /\ task_states' = [task_states EXCEPT ![c] = StatesOf(c)]
    /\ task_waiters' = [task_waiters EXCEPT ![c] = <<CallProc(c)>>]
    /\ last_reproduce' = c
    /\ ready' = Append(ready, TaskProc(c))
    /\ timer' = [timer EXCEPT ![c] = "armed"]
    /\ started' = [started EXCEPT ![c] = @ + 1]
    /\ pc' = [pc EXCEPT ![c] = "reproducing"]
    /\ cur' = NoProc
    /\ UNCHANGED <<entity_vars, busy_waiters, cancelled_reproduce, kind, arg,
                   timed_out, outcome, wrote, event_vars>>
    /\ UNCHANGED cancel_vars
    /\ UNCHANGED aux_vars

\* how "await asyncio.wait_for(...)" ends for call c, lines 541-552 and the
\* except clauses of lines 449-456 and 483-490.  A call whose own task was
\* cancelled from outside gets CancelledError whatever the reproduce task
\* did, also when the timer has fired as well (two cancellations: wait_for
\* does not convert them into TimeoutError).
WaitForResult(c) ==
    IF ext_cancel[c]
    THEN (IF cancelled_reproduce THEN "swallowed" ELSE "cancelled")
    ELSE IF timed_out[c] THEN "timeout"
    ELSE CASE task_state[c] = "ok" -> "ok"
           [] task_state[c] = "failed" -> "error"
           [] task_state[c] = "cancelled" ->
                IF cancelled_reproduce THEN "swallowed" ELSE "cancelled"

\* the call is resumed in wait_for: lines 545-552 (TimeoutError: drain
\* whatever self._reproduce_task is now) or the except clauses of the caller
ReproduceResume(c) ==
    /\ Runs(CallProc(c))
    /\ pc[c] = "reproducing"
    /\ ready' = Without(Tail(ready), TimerProc(c))
    /\ outcome' = [outcome EXCEPT ![c] = WaitForResult(c)]
    /\ timer' = [timer EXCEPT ![c] = "off"]
    /\ timed_out' = [timed_out EXCEPT ![c] = FALSE]
    /\ IF WaitForResult(c) = "timeout" /\ ~NothingToCancel
       THEN /\ task_state' = Cancelled(reproduce_task)
            /\ task_waiters' = [task_waiters EXCEPT ![reproduce_task] =
                                    Append(@, CallProc(c))]
            /\ pc' = [pc EXCEPT ![c] = "timeout_draining"]
            /\ UNCHANGED cur
       ELSE /\ pc' = [pc EXCEPT ![c] = "finally"]
            /\ cur' = CallProc(c)
            /\ UNCHANGED <<task_state, task_waiters>>
    /\ UNCHANGED <<entity_vars, gate_vars, handle_vars, task_context,
                   task_states, last_reproduce, kind, arg, started, wrote,
                   event_vars>>
    /\ cancel_origin' = IF WaitForResult(c) = "timeout" /\ ~NothingToCancel
                        THEN Asked(reproduce_task, "timeout_drain")
                        ELSE cancel_origin
    /\ UNCHANGED ext_cancel
    /\ UNCHANGED aux_vars

\* _drain_reproduce_task after a timeout, lines 530-533
TimeoutDrainResume(c) ==
    /\ Runs(CallProc(c))
    /\ pc[c] = "timeout_draining"
    /\ reproduce_task' = NoTask
    /\ pc' = [pc EXCEPT ![c] = "finally"]
    /\ cur' = CallProc(c)
    /\ ready' = Tail(ready)
    /\ UNCHANGED <<entity_vars, gate_vars, cancelled_reproduce, task_vars,
                   kind, arg, timer, timed_out, outcome, started, wrote, event_vars>>
    /\ UNCHANGED cancel_vars
    /\ UNCHANGED aux_vars

\* variant: the finally clause resets the handle and the flag but does not
\* set the event
FinallyNoRelease(c) ==
    /\ cur = CallProc(c)
    /\ pc[c] = "finally"
    /\ reproduce_task' = NoTask
    /\ cancelled_reproduce' = FALSE
    /\ pc' = [pc EXCEPT ![c] = "done"]
    /\ cur' = NoProc
    /\ UNCHANGED <<entity_vars, gate_vars, task_vars, kind, arg, timer,
                   timed_out, outcome, started, wrote, event_vars, ready>>
    /\ UNCHANGED cancel_vars
    /\ UNCHANGED aux_vars

\* the finally clause, lines 458-461 and 492-495
Finally(c) ==
    /\ cur = CallProc(c)
    /\ pc[c] = "finally"
    /\ reproduce_task' = NoTask
    /\ cancelled_reproduce' = FALSE
    /\ EventSet(ready)
    /\ pc' = [pc EXCEPT ![c] = "done"]
    /\ cur' = NoProc
    /\ UNCHANGED <<entity_vars, task_vars, kind, arg, timer, timed_out, outcome,
                   started, wrote, event_vars>>
    /\ UNCHANGED cancel_vars
    /\ UNCHANGED aux_vars

(* ------------------ async_process_scene_activation_event --------------- *)
\* variant: a LightScene that is on already keeps its brightness
ActivationBodyKeepBrightness(a) ==
    /\ context' = ActTag(a)
    /\ internal_contexts' = internal_contexts \cup {ActTag(a)}
    /\ is_on' = TRUE
    /\ brightness' = IF is_on THEN brightness ELSE scene_brightness
    /\ published' = [is_on |-> TRUE, brightness |-> brightness',
                     written |-> TRUE]
    /\ apc' = [apc EXCEPT ![a] = "done"]

\* lines 362-374
ActivationBody(a) ==
    /\ context' = ActTag(a)
    /\ internal_contexts' = internal_contexts \cup {ActTag(a)}
    /\ is_on' = TRUE
    /\ brightness' = scene_brightness
    /\ published' = [is_on |-> TRUE, brightness |-> scene_brightness,
                     written |-> TRUE]
    /\ apc' = [apc EXCEPT ![a] = "done"]

\* lines 355-374 when the event is set, lines 355-360 otherwise
ActivationStart(a) ==
    /\ Runs(ActProc(a))
    /\ apc[a] = "queued"
    /\ ready' = Tail(ready)
    /\ IF busy_reproducing_states
       THEN /\ ActivationBody(a)
            /\ UNCHANGED busy_waiters
       ELSE /\ apc' = [apc EXCEPT ![a] = "gate"]
            /\ busy_waiters' = Append(busy_waiters, ActProc(a))
            /\ UNCHANGED entity_vars
    /\ UNCHANGED <<busy_reproducing_states, handle_vars, task_vars, call_vars,
                   evt_tag, evt_result, cur>>
    /\ UNCHANGED cancel_vars
    /\ UNCHANGED aux_vars

\* Event.wait() resumes, then lines 362-374
ActivationResume(a) ==
    /\ Runs(ActProc(a))
    /\ apc[a] = "gate"
    /\ ready' = Tail(ready)
    /\ ActivationBody(a)
    /\ UNCHANGED <<gate_vars, handle_vars, task_vars, call_vars, evt_tag,
                   evt_result, cur>>
    /\ UNCHANGED cancel_vars
    /\ UNCHANGED aux_vars

(* ------------------- async_process_state_changed_event ----------------- *)
\* variant: only the active context counts as the entity's own
InternalActiveOnly(tag) == context # NoContext /\ tag = context

\* lines 335-340
Internal(tag) ==
    \/ (context # NoContext /\ tag = context)
    \/ tag \in internal_contexts

\* variant: the context of an event found to be internal is recorded as
\* self-caused, and so is that of an event that arrives while the entity is
\* off
ProcessStateChangedAdopting(e) ==
    /\ Runs(EvtProc(e))
    /\ ready' = Tail(ready)
    /\ IF ~busy_reproducing_states
       THEN /\ evt_result' = [evt_result EXCEPT ![e] = "ignored_busy"]
            /\ UNCHANGED entity_vars
       ELSE IF ~is_on
       THEN /\ evt_result' = [evt_result EXCEPT ![e] = "ignored_off"]
            /\ internal_contexts' = internal_contexts \cup {evt_tag[e]}
            /\ UNCHANGED <<is_on, brightness, context, published>>
       ELSE IF evt_tag[e] = NoContext
       THEN /\ evt_result' = [evt_result EXCEPT ![e] = "ignored_none"]
            /\ UNCHANGED entity_vars
       ELSE IF Internal(evt_tag[e])
       THEN /\ evt_result' = [evt_result EXCEPT ![e] = "internal"]
            /\ UNCHANGED entity_vars
       ELSE /\ evt_result' = [evt_result EXCEPT ![e] = "external"]
            /\ SetOff
    /\ UNCHANGED <<gate_vars, handle_vars, task_vars, call_vars, apc, evt_tag,
                   cur>>
    /\ UNCHANGED cancel_vars
    /\ UNCHANGED aux_vars

\* lines 326-348
ProcessStateChanged(e) ==
    /\ Runs(EvtProc(e))
    /\ ready' = Tail(ready)
    /\ IF ~busy_reproducing_states \/ ~is_on
       THEN /\ evt_result' = [evt_result EXCEPT ![e] =
                                IF ~busy_reproducing_states
                                THEN "ignored_busy" ELSE "ignored_off"]
            /\ UNCHANGED entity_vars
       ELSE IF evt_tag[e] = NoContext
       THEN /\ evt_result' = [evt_result EXCEPT ![e] = "ignored_none"]
            /\ UNCHANGED entity_vars
       ELSE IF Internal(evt_tag[e])
       THEN /\ evt_result' = [evt_result EXCEPT ![e] = "internal"]
            /\ UNCHANGED entity_vars
       ELSE /\ evt_result' = [evt_result EXCEPT ![e] = "external"]
            /\ SetOff
    /\ UNCHANGED <<gate_vars, handle_vars, task_vars, call_vars, apc, evt_tag,
                   cur>>
    /\ UNCHANGED cancel_vars
    /\ UNCHANGED aux_vars

(* ------------------------- two LightScenes ----------------------------- *)
\* The event loop turns from a coroutine of one LightScene to a coroutine
\* of the other: the variables now describe the second instance, and the
\* state of the first is kept aside.
Swap ==
    /\ cur = NoProc
    /\ focus' = 3 - focus
    /\ other' = instance_vars
    /\ is_on' = other[1]
    /\ brightness' = other[2]
    /\ context' = other[3]
    /\ internal_contexts' = other[4]
    /\ busy_reproducing_states' = other[5]
    /\ busy_waiters' = other[6]
    /\ reproduce_task' = other[7]
    /\ cancelled_reproduce' = other[8]
    /\ task_state' = other[9]
    /\ task_context' = other[10]
    /\ task_states' = other[11]
    /\ task_waiters' = other[12]
    /\ last_reproduce' = other[13]
    /\ pc' = other[14]
    /\ kind' = other[15]
    /\ arg' = other[16]
    /\ timer' = other[17]
    /\ timed_out' = other[18]
    /\ outcome' = other[19]
    /\ started' = other[20]
    /\ wrote' = other[21]
    /\ apc' = other[22]
    /\ evt_tag' = other[23]
    /\ evt_result' = other[24]
    /\ published' = other[25]
    /\ cancel_origin' = other[26]
    /\ ext_cancel' = other[27]
    /\ ready' = other[28]
    /\ cur' = other[29]
    /\ UNCHANGED <<scaler_vars, removed, routing>>

(* ------------------------------- teardown ------------------------------ *)
\* LightSceneManager.async_unload_lightscenes, lines 194-206: the listener
\* of the bus is released and the entity removed, which releases the
\* state-change subscription registered with async_on_remove (line 312).
\* The handlers of the events fired before have started.
Teardown ==
    /\ cur = NoProc
    /\ ~removed
    /\ \A a \in Acts : apc[a] # "queued"
    /\ \A e \in Events : evt_result[e] # "queued"
    /\ removed' = TRUE
    /\ UNCHANGED <<entity_vars, gate_vars, handle_vars, task_vars, call_vars,
                   event_vars, cancel_vars, scaler_vars, routing, pair_vars,
                   ready, cur>>

(* ------------------------- LightSceneManager --------------------------- *)
\* async_load_lightscenes, line 174: the keys of self.lightscenes, the
\* first being the scene of the entity of this model
OwnScene == "scene.s1"
SceneIds == {OwnScene, "scene.s2"}

\* the entity ids a service call can name: the scenes above, a scene
\* without a LightScene, and the empty string
CalledIds == SceneIds \cup {"scene.x"}

\* service_data.get(ATTR_ENTITY_ID), line 101: absent, a string, a list of
\* strings, or a value of another type
EntityIdValues ==
    {[shape |-> "missing", ids |-> <<>>], [shape |-> "other", ids |-> <<>>],
     [shape |-> "str", ids |-> <<"">>], [shape |-> "list", ids |-> <<>>]}
    \cup {[shape |-> "str", ids |-> <<i>>] : i \in CalledIds}
    \cup {[shape |-> "list", ids |-> <<i>>] : i \in CalledIds}
    \cup {[shape |-> "list", ids |-> p] :
              p \in {q \in CalledIds \X CalledIds : q[1] # q[2]}}

\* the EVENT_CALL_SERVICE events of the bus
BusEvents ==
    [domain : {"scene", "light"}, service : {"turn_on", "turn_off"},
     entity_id : EntityIdValues, context : {ActTag(1), NoContext}]

\* variant: the service of the call is not looked at
RoutedAnyService(ev) ==
    IF ev.domain # "scene" THEN [delivered |-> <<>>, log |-> "none"]
    ELSE IF ev.entity_id.shape = "missing" \/ ev.entity_id.ids = <<"">>
            \/ (ev.entity_id.shape = "list" /\ ev.entity_id.ids = <<>>)
    THEN [delivered |-> <<>>, log |-> "none"]
    ELSE IF ev.entity_id.shape \notin {"str", "list"}
    THEN [delivered |-> <<>>, log |-> "warning"]
    ELSE LET known(i) == i \in SceneIds
             found == SelectSeq(ev.entity_id.ids, known)
         IN  IF found # <<>> /\ ev.context = NoContext
             THEN [delivered |-> <<>>, log |-> "error"]
             ELSE [delivered |-> found, log |-> "none"]

\* async_scene_activated_event_listener, lines 91-127: the LightScenes whose
\* handler is awaited, in order, and what is logged.  event.context.id of
\* line 119 raises AttributeError when the event has no context, which
\* line 126 catches.
Routed(ev) ==
    IF ev.domain # "scene" THEN [delivered |-> <<>>, log |-> "none"]
    ELSE IF ev.service # "turn_on" THEN [delivered |-> <<>>, log |-> "none"]
    ELSE IF ev.entity_id.shape = "missing" \/ ev.entity_id.ids = <<"">>
            \/ (ev.entity_id.shape = "list" /\ ev.entity_id.ids = <<>>)
    THEN [delivered |-> <<>>, log |-> "none"]
    ELSE IF ev.entity_id.shape \notin {"str", "list"}
    THEN [delivered |-> <<>>, log |-> "warning"]
    ELSE LET known(i) == i \in SceneIds
             found == SelectSeq(ev.entity_id.ids, known)
         IN  IF found # <<>> /\ ev.context = NoContext
             THEN [delivered |-> <<>>, log |-> "error"]
             ELSE [delivered |-> found, log |-> "none"]

\* async_scene_activated_event_listener, lines 89-127, with
\* async_process_scene_activation_event, lines 355-374, of an entity whose
\* gate is open: Event.wait() returns at once and the handler runs to its end
\* within the listener
Listen ==
    /\ routing.state = "fired"
    /\ cur = NoProc
    /\ busy_reproducing_states
    /\ routing' = [routing EXCEPT !.state = "returned",
                                  !.delivered = Routed(routing.event).delivered,
                                  !.log = Routed(routing.event).log]
    /\ IF \E i \in 1..Len(Routed(routing.event).delivered) :
              Routed(routing.event).delivered[i] = OwnScene
       THEN ActivationBody(1)
       ELSE UNCHANGED <<entity_vars, apc>>
    /\ UNCHANGED <<gate_vars, handle_vars, task_vars, call_vars, evt_tag,
                   evt_result, cancel_vars, scaler_vars, removed, pair_vars,
                   ready, cur>>

\* every event of the bus, fired once the LightScenes are loaded
RoutingInit ==
    /\ EntityInit
    /\ snapshot = scene_config
    /\ requested = NoBrightness
    /\ baseline = Initialized(scene_config)
    /\ reproduced = NoStates
    /\ routing \in [state : {"fired"}, event : BusEvents,
                     delivered : {<<>>}, log : {"none"}]

RoutingNext == Listen

RoutingSpec == RoutingInit /\ [][RoutingNext]_vars

(* ---------------------------- brightness scaler ------------------------ *)
\* LightScene.__init__, lines 240-262: the baseline of the snapshot, which
\* is the brightness of the new entity (lines 257 and 261)
InitializeBaseline ==
    /\ ~baseline.done
    /\ baseline' = Initialized(snapshot)
    /\ brightness' = Initialized(snapshot).scene_brightness
    /\ UNCHANGED <<is_on, context, internal_contexts, published, gate_vars,
                   handle_vars, task_vars, call_vars,
                   event_vars, cancel_vars, snapshot, requested, reproduced,
                   removed, routing, pair_vars, ready, cur>>

\* async_turn_on, lines 393-443: the brightness of the entity (line 402) and
\* the states handed to the reproduction
Scale ==
    /\ baseline.done
    /\ reproduced = NoStates
    /\ reproduced' = ScaledStates(snapshot, baseline, requested)
    /\ brightness' = IF baseline.has_brightness_control
                     THEN (IF requested = NoBrightness
                           THEN baseline.scene_brightness ELSE requested)
                     ELSE brightness
    /\ UNCHANGED <<is_on, context, internal_contexts, published, gate_vars,
                   handle_vars, task_vars, call_vars,
                   event_vars, cancel_vars, snapshot, requested, baseline,
                   removed, routing, pair_vars, ready, cur>>

\* async_process_scene_activation_event, line 369: the brightness of the
\* entity returns to the baseline
ActivateAtBaseline ==
    /\ baseline.done
    /\ brightness' = baseline.scene_brightness
    /\ UNCHANGED <<is_on, context, internal_contexts, published, gate_vars,
                   handle_vars, task_vars, call_vars,
                   event_vars, cancel_vars, scaler_vars,
                   removed, routing, pair_vars, ready, cur>>

\* every snapshot and every requested brightness (or none), before the
\* constructor has run
ScalerInit ==
    /\ EntityInit
    /\ snapshot \in Snapshots
    /\ requested \in RequestedValues \cup {NoBrightness}
    /\ baseline = NoBaseline
    /\ reproduced = NoStates
    /\ routing = NoRouting

ScalerNext == InitializeBaseline \/ Scale \/ ActivateAtBaseline

ScalerSpec == ScalerInit /\ [][ScalerNext]_vars

(* ------------------------------ specification -------------------------- *)
Next ==
    \/ \E c \in Calls : \E b \in Requests : Invoke(c, "on", b)
    \/ \E c \in Calls : Invoke(c, "off", NoBrightness)
    \/ \E t \in Calls : TaskStart(t)
    \/ \E t \in Calls : TaskSettle(t)
    \/ \E t \in Calls : TaskCancelLand(t)
    \/ \E t \in Calls : \E r \in {"ok", "failed", "cancelled"} : TaskFinish(t, r)
    \/ \E c \in Calls : TimeoutDue(c)
    \/ \E c \in Calls : TimeoutFire(c)
    \/ \E a \in Acts : ActivationEvent(a)
    \/ \E e \in Events : \E tag \in EventTags : StateChangedEvent(e, tag)
    \/ \E c \in Calls : CancelInFlight(c)
    \/ \E c \in Calls : DrainResume(c)
    \/ \E c \in Calls : WaitGate(c)
    \/ \E c \in Calls : GateResume(c)
    \/ \E c \in Calls : TurnOnBody(c)
    \/ \E c \in Calls : TurnOffBody(c)
    \/ \E c \in Calls : StartReproduce(c)
    \/ \E c \in Calls : ReproduceResume(c)
    \/ \E c \in Calls : TimeoutDrainResume(c)
    \/ \E c \in Calls : Finally(c)
    \/ \E a \in Acts : ActivationStart(a)
    \/ \E a \in Acts : ActivationResume(a)
    \/ \E e \in Events : ProcessStateChanged(e)

Spec == Init /\ [][Next]_vars

(* ------------------------------- vocabulary ---------------------------- *)
\* the reproductions that are in flight
InFlightTasks == {t \in Calls : InFlight(t)}

\* the calls made so far, and the most recent of them
Invoked == {c \in Calls : pc[c] # "new"}
LastCall == CHOOSE c \in Invoked : \A d \in Invoked : d <= c
AllReturned == Invoked # {} /\ \A c \in Invoked : pc[c] = "done"

\* no scene-activation event and no member state-change event so far
OnlyCalls ==
    /\ \A a \in Acts : apc[a] = "new"
    /\ \A e \in Events : evt_result[e] = "new"

\* no coroutine is in the middle of a code region
AtAwait == cur = NoProc

(* --------------------------------- C1 ---------------------------------- *)
\* C1: at most one reproduction of the LightScene is in flight at any
\* instant, under every interleaving of turn_on and turn_off calls.
C1_AtMostOneInFlight == Cardinality(InFlightTasks) <= 1

(* --------------------------------- C2 ---------------------------------- *)
\* C2 (first half): once all calls have returned, is_on is the value set by
\* the most recently made call.
C2_LastCallDecidesIsOn ==
    (AllReturned /\ OnlyCalls) => (is_on = (kind[LastCall] = "on"))

\* C2: last-writer-wins.  Once all calls have returned is_on is the value of
\* the most recent call, and no reproduction of an earlier call is left
\* running (free to complete) once a later call has started its own.
C2_LastWriterWins ==
    /\ C2_LastCallDecidesIsOn
    /\ \A c, d \in Calls :
          (c < d /\ started[d] > 0) =>
              task_state[c] \notin {"created", "running", "settled_pending"}

(* --------------------------------- C3 ---------------------------------- *)
\* exactly two calls were made, the first a turn_on and the second a
\* turn_off, and no scene-activation event was delivered
OnThenOff ==
    /\ kind[1] = "on" /\ kind[2] = "off"
    /\ \A c \in Calls : c > 2 => pc[c] = "new"
    /\ \A a \in Acts : apc[a] = "new"

C4_ReturnReleasesGate ==
    [][\A c \in Calls :
          (pc[c] # "done" /\ pc'[c] = "done") =>
              (busy_reproducing_states' /\ busy_waiters' = <<>>)]_vars

\* C4: every call that was made eventually returns, whichever way its
\* reproduction ends, and returns with the busy gate released; every
\* coroutine suspended on the gate is eventually resumed.
C4_EveryCallReturns ==
    /\ \A c \in Calls : (pc[c] = "queued") ~> (pc[c] = "done")
    /\ \A c \in Calls : (pc[c] = "gate") ~> (pc[c] # "gate")
    /\ \A a \in Acts : (apc[a] = "gate") ~> (apc[a] = "done")
    /\ C4_ReturnReleasesGate

\* a reproduction timed out, and a turn_on made afterwards started a
\* reproduction of its own and returned
C4_Witness ==
    \E c, d \in Calls :
        /\ c < d
        /\ outcome[c] = "timeout" /\ pc[c] = "done"
        /\ kind[d] = "on" /\ started[d] = 1 /\ pc[d] = "done"
        /\ busy_reproducing_states

(* --------------------------------- C5 ---------------------------------- *)
\* the state-changed handler runs for event e in this step
Handles(e) == evt_result[e] = "queued" /\ evt_result'[e] # "queued"

\* what the claim asks of the handler for an event that carries a tag
CausationOutcome(e) ==
    IF evt_tag[e] = context \/ evt_tag[e] \in internal_contexts
    THEN is_on'
    ELSE ~is_on' /\ internal_contexts' = {}

C6_IgnoredWhenOffOrInFlight ==
    [][\A e \in Events :
          (Handles(e) /\ (~is_on \/ InFlightTasks # {})) =>
              UNCHANGED <<entity_vars, handle_vars, task_vars, gate_vars>>]_vars

(* --------------------------------- C7 ---------------------------------- *)
\* exactly two calls were made, both turn_on with the same brightness, and
\* no event was delivered
OnTwice ==
    /\ kind[1] = "on" /\ kind[2] = "on" /\ arg[1] = arg[2]
    /\ \A c \in Calls : c > 2 => pc[c] = "new"
    /\ OnlyCalls

\* the published state and the reproduced states of one turn_on(b)
SingleTurnOnPublished(b) ==
    [is_on |-> TRUE, brightness |-> TargetBrightness(b), written |-> TRUE]
SingleTurnOnStates(b) ==
    [m \in Members |->
        CASE m = "light.a"  -> [state |-> "on", brightness |-> (100 * b) \div 150]
          [] m = "light.b"  -> [state |-> "on", brightness |-> (200 * b) \div 150]
          [] m = "switch.c" -> [state |-> "on", brightness |-> NoBrightness]]

PublishedOn(c) ==
    /\ wrote[c] = [is_on |-> TRUE, brightness |-> TargetBrightness(arg[c]),
                   written |-> TRUE]

\* C8 (ordering): a turn_on that has created its reproduce task has set and
\* published is_on = true and the requested brightness before.
C8_PublishedBeforeStart ==
    \A c \in Calls :
        (kind[c] = "on" /\ started[c] > 0) => PublishedOn(c)

\* C8 (no rollback): no step a turn_on takes after it created its reproduce
\* task (resuming from a completed, failed, timed-out or superseded
\* reproduction, draining, its finally clause) changes is_on.
C8_NoRollback ==
    [][\A c \in Calls :
          (kind[c] = "on" /\ started[c] > 0 /\ pc'[c] # pc[c]) =>
              is_on' = is_on]_vars

\* C8: optimistic publication ordering.
C8_OptimisticPublication == []C8_PublishedBeforeStart /\ C8_NoRollback

\* between the publication and the start of the reproduction; and turn_on
\* calls that ended in a failure, a timeout and a supersession with is_on
\* still true
C8_WitnessOrder ==
    \E c \in Calls :
        /\ kind[c] = "on" /\ pc[c] = "start" /\ started[c] = 0
        /\ published = wrote[c] /\ PublishedOn(c) /\ is_on
C8_Witness ==
    \E c \in Calls :
        /\ kind[c] = "on" /\ pc[c] = "done"
        /\ outcome[c] \in {"error", "timeout", "swallowed"}
        /\ PublishedOn(c) /\ is_on /\ context = CallTag(c)

(* --------------------------------- C9 ---------------------------------- *)
\* C9: a turn_off has set is_on = false, cleared known_self_tags and
\* published before it creates its reproduce task; it creates exactly one,
\* and that one drives every member entity to "off".
C9_TurnOff ==
    \A c \in Calls :
        kind[c] = "off" =>
            /\ started[c] <= 1
            /\ pc[c] = "start" =>
                  /\ started[c] = 0
                  /\ ~is_on /\ internal_contexts = {}
                  /\ published = [is_on |-> FALSE, brightness |-> brightness,
                                  written |-> TRUE]
                  /\ wrote[c] = published
            /\ pc[c] \in {"reproducing", "timeout_draining", "finally", "done"} =>
                  /\ started[c] = 1
                  /\ wrote[c].written /\ ~wrote[c].is_on
                  /\ \A m \in Members : task_states[c][m].state = "off"

\* a turn_off on a LightScene that was never on ran its off-reproduction
C9_Witness ==
    /\ kind[1] = "off" /\ pc[1] = "done" /\ task_state[1] = "ok"
    /\ \A c \in Calls : c > 1 => pc[c] = "new"
    /\ OnlyCalls

(* --------------------------------- C10 --------------------------------- *)
\* C10: the activation handler, once past the gate, makes the event's tag
\* the active tag and a known self tag, sets is_on = true at baseline
\* brightness and publishes; it starts, cancels and replaces no
\* reproduction.
C10_Activation ==
    [][\A a \in Acts :
          (apc[a] # "done" /\ apc'[a] = "done") =>
              /\ context' = ActTag(a)
              /\ ActTag(a) \in internal_contexts'
              /\ internal_contexts \subseteq internal_contexts'
              /\ is_on' /\ brightness' = scene_brightness
              /\ published' = [is_on |-> TRUE, brightness |-> scene_brightness,
                               written |-> TRUE]
              /\ UNCHANGED <<task_vars, handle_vars, started,
                             busy_reproducing_states>>]_vars

\* the scene was activated elsewhere while the LightScene was on at a
\* user-adjusted brightness: the brightness is back at the baseline
C10_Witness ==
    \E a \in Acts :
        /\ apc[a] = "done" /\ context = ActTag(a)
        /\ kind[1] = "on" /\ pc[1] = "done" /\ outcome[1] = "ok"
        /\ wrote[1].brightness # scene_brightness
        /\ \A c \in Calls : c > 1 => pc[c] = "new"
        /\ \A e \in Events : evt_result[e] = "new"
        /\ is_on /\ brightness = scene_brightness

(* --------------------------------- C11 --------------------------------- *)
\* the call resumes from wait_for in this step
ResumesFromWaitFor(c) == pc[c] = "reproducing" /\ pc'[c] # "reproducing"

\* a superseding call's drain has asked the call's reproduction to cancel
Superseded(c) == "supersede" \in cancel_origin[c]

\* the call resumes with CancelledError
SeesCancellation(c) ==
    ext_cancel[c] \/ (~timed_out[c] /\ task_state[c] = "cancelled")

\* C11: cancellation provenance.  A call whose reproduction was cancelled by
\* a superseding call returns normally; a call that resumes with a
\* cancellation no superseding call's drain has asked for raises it to its
\* caller.
C11_CancellationProvenance ==
    [][\A c \in Calls :
          ResumesFromWaitFor(c) =>
              /\ (Superseded(c) /\ task_state[c] = "cancelled") =>
                    outcome'[c] \in {"swallowed", "timeout"}
              /\ (~Superseded(c) /\ SeesCancellation(c)) =>
                    outcome'[c] = "cancelled"]_vars

\* one call was superseded and returned normally, another was cancelled by
\* its caller and raised the cancellation
C11_Witness ==
    \E c, d \in Calls :
        /\ pc[c] = "done" /\ outcome[c] = "swallowed" /\ Superseded(c)
        /\ pc[d] = "done" /\ outcome[d] = "cancelled" /\ ext_cancel[d]
        /\ ~Superseded(d)

(* --------------------------------- C12 --------------------------------- *)
\* the step is one of call c's own handling of its timeout: the timer's
\* callback, the resumption from wait_for, the drain, the finally clause
TimeoutStep(c) ==
    \/ ~timed_out[c] /\ timed_out'[c]
    \/ ResumesFromWaitFor(c) /\ timed_out[c]
    \/ outcome[c] = "timeout" /\ pc'[c] # pc[c]

\* C12 (frame): no step of the handling of a timeout changes is_on, the
\* brightness, the active tag, known_self_tags or the published state; the
\* timer's callback leaves the reproduction cancelled or done; the call
\* resumes without an exception.
C12_TimeoutFrame ==
    [][\A c \in Calls :
          TimeoutStep(c) =>
              /\ UNCHANGED entity_vars
              /\ (~timed_out[c] /\ timed_out'[c]) =>
                    task_state'[c] \notin {"created", "running",
                                           "settled_pending"}
              /\ ResumesFromWaitFor(c) =>
                    /\ outcome'[c] = "timeout"
                    /\ TaskDone(c)]_vars

\* C12: a call whose reproduction timed out returns with is_on,
\* the brightness, the active tag and known_self_tags as it published them
\* before it started the reproduction.
C12_TimeoutKeepsPublished ==
    [][\A c \in Calls :
          (outcome[c] = "timeout" /\ pc[c] # "done" /\ pc'[c] = "done") =>
              /\ published' = wrote[c]
              /\ is_on' = wrote[c].is_on
              /\ brightness' = wrote[c].brightness
              /\ kind[c] = "on" =>
                    (context' = CallTag(c) /\ CallTag(c) \in internal_contexts')
              /\ kind[c] = "off" => internal_contexts' = {}]_vars

\* a turn_on whose reproduction timed out has returned; the LightScene is
\* still on at the requested brightness
C12_Witness ==
    \E c \in Calls :
        /\ kind[c] = "on" /\ pc[c] = "done" /\ outcome[c] = "timeout"
        /\ task_state[c] = "cancelled"
        /\ is_on /\ brightness = TargetBrightness(arg[c])
        /\ context = CallTag(c) /\ CallTag(c) \in internal_contexts

(* --------------------------------- C13 --------------------------------- *)
\* the per-entity baseline of a member light as the specification words it:
\* the declared brightness, a missing one counting as 255 when the light is
\* declared on and as 0 otherwise
DeclaredLevel(m) ==
    IF snapshot[m].brightness # NoBrightness THEN snapshot[m].brightness
    ELSE IF snapshot[m].state = "on" THEN 255 ELSE 0

\* the lights declared on with a positive brightness
PositiveOnLights ==
    {m \in Members : IsLight(m) /\ snapshot[m].state = "on"
                                /\ DeclaredLevel(m) > 0}

\* round(a / b) for positive b: a / b is never half-way between two
\* integers unless 2 * a is an odd multiple of b, where Python rounds to the
\* even neighbour
Rounded(a, b) ==
    LET q == a \div b
    IN  IF 2 * (a % b) < b THEN q
        ELSE IF 2 * (a % b) > b THEN q + 1
        ELSE IF q % 2 = 0 THEN q ELSE q + 1

ScalerDone == baseline.done /\ reproduced # NoStates

\* C13: for a brightness-capable scene and every requested brightness r in
\* 1..255, each member light with a positive per-entity baseline m is
\* reproduced with brightness round(m * r / baseline_brightness) clamped to
\* [1, 255]; lights with zero baseline and non-light members are reproduced
\* as declared.
C13_ScalingRounds ==
    (ScalerDone /\ baseline.has_brightness_control
                /\ requested \in 1..255) =>
        \A m \in Members :
            IF IsLight(m) /\ DeclaredLevel(m) > 0
            THEN /\ reproduced[m].state = snapshot[m].state
                 /\ reproduced[m].brightness =
                        Max(1, Min(255, Rounded(DeclaredLevel(m) * requested,
                                                baseline.scene_brightness)))
            ELSE reproduced[m] = snapshot[m]

\* what does hold: the members that are not scaled are reproduced as
\* declared, and a scaled brightness is within one below the clamped exact
\* quotient
C13_UnscaledAsDeclared ==
    (ScalerDone /\ baseline.has_brightness_control
                /\ requested \in 1..255) =>
        \A m \in Members :
            IF IsLight(m) /\ DeclaredLevel(m) > 0
            THEN /\ reproduced[m].state = snapshot[m].state
                 /\ reproduced[m].brightness \in 1..255
                 /\ reproduced[m].brightness * baseline.scene_brightness
                        <= Max(baseline.scene_brightness,
                               DeclaredLevel(m) * requested)
            ELSE reproduced[m] = snapshot[m]

\* the example of the claim: members 100 and 200, baseline 150, r = 75
C13_Witness ==
    /\ ScalerDone
    /\ requested = 75
    /\ snapshot["light.a"] = [state |-> "on", brightness |-> 100]
    /\ snapshot["light.b"] = [state |-> "on", brightness |-> 200]
    /\ baseline.scene_brightness = 150
    /\ reproduced["light.a"].brightness = 50
    /\ reproduced["light.b"].brightness = 100

(* --------------------------------- C14 --------------------------------- *)
RECURSIVE SumOfLevels(_)
SumOfLevels(S) ==
    IF S = {} THEN 0
    ELSE LET m == CHOOSE x \in S : TRUE
         IN  DeclaredLevel(m) + SumOfLevels(S \ {m})

\* C14: for every snapshot with at least one member light declared on with
\* positive brightness, supports_brightness is true and baseline_brightness
\* is the floor of the average of those values; for every other snapshot
\* supports_brightness is false and baseline_brightness is 255; hence
\* baseline_brightness > 0 always.
C14_BaselineInitialisation ==
    baseline.done =>
        /\ baseline.scene_brightness > 0
        /\ IF PositiveOnLights # {}
           THEN /\ baseline.has_brightness_control
                /\ \E q \in 1..255 :
                      /\ baseline.scene_brightness = q
                      /\ q * Cardinality(PositiveOnLights)
                            <= SumOfLevels(PositiveOnLights)
                      /\ SumOfLevels(PositiveOnLights)
                            < (q + 1) * Cardinality(PositiveOnLights)
           ELSE /\ ~baseline.has_brightness_control
                /\ baseline.scene_brightness = 255

\* a snapshot where the average is not exact and a light that is off carries
\* a brightness, which does not enter the average
C14_Witness ==
    /\ baseline.done
    /\ snapshot["light.a"] = [state |-> "on", brightness |-> 100]
    /\ snapshot["light.b"] = [state |-> "on", brightness |-> 255]
    /\ baseline.scene_brightness = 177

C14_WitnessOffLight ==
    /\ baseline.done
    /\ snapshot["light.a"] = [state |-> "off", brightness |-> 200]
    /\ snapshot["light.b"] = [state |-> "on", brightness |-> 100]
    /\ baseline.scene_brightness = 100
    /\ baseline.has_brightness_control

(* --------------------------------- C15 --------------------------------- *)
\* C15: requesting brightness 1 yields a scaled brightness of at least 1 for
\* every member light with positive baseline, and requesting 255 on a scene
\* whose baseline_brightness is 255 reproduces every member light with its
\* brightness unchanged (the per-entity baseline of a scaled light, a missing
\* brightness of a light declared on counting as 255; the declared
\* attributes of every other member).
C15_ScalingBoundary ==
    ScalerDone =>
        /\ requested = 1 =>
              \A m \in Members :
                  (IsLight(m) /\ DeclaredLevel(m) > 0) =>
                      reproduced[m].brightness >= 1
        /\ (requested = 255 /\ baseline.scene_brightness = 255) =>
              \A m \in Members :
                  /\ reproduced[m].state = snapshot[m].state
                  /\ reproduced[m].brightness =
                        IF /\ baseline.has_brightness_control
                           /\ IsLight(m)
                           /\ DeclaredLevel(m) > 0
                        THEN DeclaredLevel(m)
                        ELSE snapshot[m].brightness

\* brightness 1 on a scene where the exact quotient is below 1
C15_Witness ==
    /\ ScalerDone
    /\ requested = 1
    /\ baseline.scene_brightness = 150
    /\ snapshot["light.a"] = [state |-> "on", brightness |-> 100]
    /\ reproduced["light.a"].brightness = 1

\* brightness 255 on a scene of baseline 255 with a dimmer light that is off
C15_WitnessFull ==
    /\ ScalerDone
    /\ requested = 255
    /\ baseline.has_brightness_control
    /\ baseline.scene_brightness = 255
    /\ snapshot["light.a"] = [state |-> "off", brightness |-> 100]
    /\ reproduced["light.a"].brightness = 100
    /\ reproduced["light.b"].brightness = 255

(* --------------------------------- C17 --------------------------------- *)
\* the gate is closed while the event is clear
GateClosed == ~busy_reproducing_states

\* C17: in every reachable state the busy gate is closed if and only if a
\* reproduction of the entity is in flight.
C17_GateClosedIffInFlight == GateClosed <=> InFlightTasks # {}

\* the half of it that fails only with three overlapping calls: a
\* reproduction in flight keeps the gate closed
C17_InFlightKeepsGateClosed == InFlightTasks # {} => GateClosed

(* --------------------------------- C18 --------------------------------- *)
\* the steps in which a turn_on call mints its tag, an activation handler
\* adopts the tag of its event, a turn_off call turns the entity off and a
\* state-change event is found to be external
MintsTag(c) == kind[c] = "on" /\ pc[c] = "body" /\ pc'[c] # "body"
AdoptsTag(a) == apc[a] # "done" /\ apc'[a] = "done"
TurnsOff(c) == kind[c] = "off" /\ pc[c] = "body" /\ pc'[c] # "body"
DetectsExternalChange(e) ==
    evt_result[e] # "external" /\ evt_result'[e] = "external"

TransitionToOff ==
    \/ \E c \in Calls : TurnsOff(c)
    \/ \E e \in Events : DetectsExternalChange(e)

C18_EmptyWhenOff == ~is_on => internal_contexts = {}

C18_Accumulates ==
    [][internal_contexts' =
          IF TransitionToOff THEN {}
          ELSE internal_contexts
                  \cup {CallTag(c) : c \in {d \in Calls : MintsTag(d)}}
                  \cup {evt_ctx \in {ActTag(a) : a \in Acts} :
                          \E a \in Acts : AdoptsTag(a) /\ evt_ctx = ActTag(a)}
      ]_vars

\* C18: known_self_tags is exactly the set of tags minted by turn_on calls
\* or adopted from scene-activation events since the most recent transition
\* to Off (it starts empty, every such step adds its tag, every transition
\* to Off empties it, no other step changes it), so it is empty whenever
\* is_on is false and retains the tags of consecutive turn_on calls.
C18_KnownSelfTags == []C18_EmptyWhenOff /\ C18_Accumulates

\* the tags of two consecutive turn_on calls and of an activation are kept
C18_Witness ==
    /\ is_on
    /\ {CallTag(1), CallTag(2), ActTag(1)} \subseteq internal_contexts

\* ... and dropped by a later turn_off
C18_WitnessCleared ==
    /\ ~is_on
    /\ internal_contexts = {}
    /\ wrote[1].written /\ kind[1] = "on"
    /\ wrote[2].written /\ kind[2] = "on"
    /\ wrote[3].written /\ kind[3] = "off"

(* --------------------------------- C21 --------------------------------- *)
\* C21: when supports_brightness is false, turn_on with any requested
\* brightness (or none) reproduces exactly the declared state and
\* attributes of every member, and current_brightness is the fixed default
\* 255 in every reachable state.
C21_PureOnOff ==
    (baseline.done /\ ~baseline.has_brightness_control) =>
        /\ brightness = 255
        /\ reproduced # NoStates => reproduced = snapshot

\* a scene whose only light that is on declares brightness 0, and whose
\* other light is off with a brightness, turned on with brightness 75
C21_Witness ==
    /\ ScalerDone
    /\ ~baseline.has_brightness_control
    /\ requested = 75
    /\ snapshot["light.a"] = [state |-> "on", brightness |-> 0]
    /\ snapshot["light.b"] = [state |-> "off", brightness |-> 100]
    /\ reproduced = snapshot
    /\ brightness = 255

(* --------------------------------- C22 --------------------------------- *)
\* C22: the external-change transition to Off only sets is_on = false,
\* clears known_self_tags and publishes; it starts no reproduction, drives
\* no member entity and leaves current_brightness, the active causation tag
\* and the busy gate unchanged.
C22_ExternalChangeFrame ==
    [][\A e \in Events :
          DetectsExternalChange(e) =>
              /\ ~is_on'
              /\ internal_contexts' = {}
              /\ published' = [is_on |-> FALSE, brightness |-> brightness,
                               written |-> TRUE]
              /\ UNCHANGED <<brightness, context, busy_reproducing_states,
                             busy_waiters, reproduce_task,
                             cancelled_reproduce, task_state, task_context,
                             task_states, task_waiters, last_reproduce,
                             started, pc>>]_vars

\* the LightScene, turned on at brightness 75 by a call that has returned,
\* has been turned off by an external change and keeps brightness and tag
C22_Witness ==
    \E e \in Events :
        /\ evt_result[e] = "external"
        /\ ~is_on /\ internal_contexts = {}
        /\ brightness = 75 /\ context = CallTag(1)
        /\ published = [is_on |-> FALSE, brightness |-> 75, written |-> TRUE]
        /\ pc[1] = "done" /\ busy_reproducing_states
        /\ \A c \in Calls : c > 1 => pc[c] = "new"

(* --------------------------------- C23 --------------------------------- *)
\* the activation handler a, which was waiting on the busy gate, runs on
\* in this step
ResumesFromGate(a) == apc[a] = "gate" /\ apc'[a] = "done"

\* C23: an activation handler that was blocked on the busy gate changes
\* is_on, the brightness and the causation tags only when no reproduction
\* of the LightScene is in flight.
C23_ActivationAfterGate ==
    [][\A a \in Acts :
          (ResumesFromGate(a) /\ InFlightTasks # {}) =>
              UNCHANGED <<is_on, brightness, context, internal_contexts>>]_vars

\* an activation handler is waiting on the gate while a turn_off has
\* superseded the turn_on in flight
C23_Witness ==
    /\ \E a \in Acts : apc[a] = "gate"
    /\ kind[1] = "on" /\ task_state[1] = "cancelling"
    /\ kind[2] = "off" /\ pc[2] = "draining"

(* --------------------------------- C24 --------------------------------- *)
\* C24: whenever a reproduction of the LightScene is in flight, the stored
\* reproduce-task handle refers to that reproduction.
C24_HandleTracksInFlight ==
    \A t \in InFlightTasks : reproduce_task = t

\* a reproduction started by a later call is in flight while an earlier
\* task has been cancelled and drained
C24_Witness ==
    /\ task_state[1] = "cancelled"
    /\ InFlight(2)
    /\ reproduce_task = 2

(* --------------------------------- C25 --------------------------------- *)
\* the tags of the reproductions the LightScene has started so far
OwnReproductionTags ==
    {task_context[t] : t \in {u \in Calls : task_state[u] # "none"}}
        \ {NoContext}

\* C25: a member state-change event whose causation tag is the tag of one
\* of the LightScene's own reproductions never triggers the external-change
\* transition to Off, however late it is delivered.
C25_NoSelfInflictedOff ==
    [][\A e \in Events :
          (Handles(e) /\ evt_tag[e] \in OwnReproductionTags) =>
              evt_result'[e] # "external"]_vars

\* an event with the tag of the first turn_on's reproduction is delivered
\* after a turn_off and a second turn_on have run to their end
C25_Witness ==
    /\ kind[1] = "on" /\ kind[2] = "off" /\ kind[3] = "on"
    /\ pc[1] = "done" /\ pc[2] = "done" /\ pc[3] = "done"
    /\ is_on /\ busy_reproducing_states
    /\ \E e \in Events :
          evt_result[e] = "queued" /\ evt_tag[e] = task_context[1]

(* --------------------------------- C16 --------------------------------- *)
\* a step of a state-change handler or of a scene-activation handler
EventHandlerStep == apc' # apc \/ evt_result' # evt_result

\* C16: once the LightScene has been torn down, no member state-change
\* event and no scene-activation event changes its is_on, brightness or
\* causation tags or makes it publish state, an activation handler that was
\* waiting on the busy gate at teardown included.
C16_NoEventAfterTeardown ==
    [][(removed /\ EventHandlerStep) =>
          UNCHANGED <<is_on, brightness, context, internal_contexts,
                      published>>]_vars

\* an activation handler is waiting on the busy gate of a removed entity
C16_Witness ==
    /\ removed
    /\ \E a \in Acts : apc[a] = "gate"

(* --------------------------------- C20 --------------------------------- *)
\* the scene ids the event names: its entity id, or the members of its
\* entity-id list
NamedIds ==
    IF routing.event.entity_id.shape \in {"str", "list"}
    THEN {routing.event.entity_id.ids[i] :
            i \in 1..Len(routing.event.entity_id.ids)}
    ELSE {}

Addressed(id) ==
    /\ routing.event.domain = "scene"
    /\ routing.event.service = "turn_on"
    /\ id \in NamedIds

HandlerReached(id) ==
    \E i \in 1..Len(routing.delivered) : routing.delivered[i] = id

\* C20: a bus event reaches the scene-activation handler of a LightScene
\* only if its domain is scene, its service is turn_on and the scene id of
\* that LightScene is the event's entity id or a member of its entity-id
\* list; every other event is dropped: no LightScene changes and no error
\* is propagated.
C20_ActivationRouting ==
    /\ routing.state \in {"none", "fired", "returned"}
    /\ routing.state = "returned" =>
          /\ \A id \in SceneIds : HandlerReached(id) => Addressed(id)
          /\ \A i \in 1..Len(routing.delivered) :
                routing.delivered[i] \in SceneIds
          /\ apc[1] = "done" => Addressed(OwnScene)
          /\ (~\E id \in SceneIds : Addressed(id)) =>
                /\ routing.delivered = <<>>
                /\ apc[1] = "new"
                /\ ~is_on /\ context = NoContext /\ internal_contexts = {}
                /\ brightness = scene_brightness
                /\ ~published.written

\* an event that names an unknown scene and the scene of the entity has
\* reached the handler of the entity
C20_Witness ==
    /\ routing.state = "returned"
    /\ routing.event.entity_id.ids = <<"scene.x", OwnScene>>
    /\ routing.delivered = <<OwnScene>>
    /\ apc[1] = "done"
    /\ is_on /\ context = ActTag(1)

\* an event of the right service for an unknown scene has been dropped
C20_WitnessDropped ==
    /\ routing.state = "returned"
    /\ routing.event.domain = "scene"
    /\ routing.event.service = "turn_on"
    /\ routing.event.entity_id.ids = <<"scene.x">>
    /\ routing.delivered = <<>>
    /\ ~is_on

(* --------------------------------- C19 --------------------------------- *)
\* the fields of the second LightScene the claim names: is_on, brightness,
\* the active tag, known_self_tags, the busy gate, the reproduce task and
\* the state of every reproduction (positions of instance_vars)
OtherIsOn == other[1]
OtherBrightness == other[2]
OtherContext == other[3]
OtherInternalContexts == other[4]
OtherBusy == other[5]
OtherReproduceTask == other[7]
OtherTaskState == other[9]

\* a step of the event loop for the LightScene in focus: anything but the
\* loop turning to the other one
HandledByFocus == focus' = focus

\* the tags minted by the turn_on calls of LightScene i
TurnOnTagsOf(i) == {<<"turn_on", i, c>> : c \in Calls}

C19_Frame ==
    [][HandledByFocus =>
          UNCHANGED <<OtherIsOn, OtherBrightness, OtherContext,
                      OtherInternalContexts, OtherBusy, OtherReproduceTask,
                      OtherTaskState>>]_vars

C19_OwnTagsOnly ==
    /\ internal_contexts \cap TurnOnTagsOf(3 - focus) = {}
    /\ OtherInternalContexts \cap TurnOnTagsOf(focus) = {}

\* C19: with two LightScene instances, no operation or event handled by one
\* changes the other's is_on, brightness, busy gate, in-flight reproduction
\* or causation tags, and known_self_tags of an instance never contains a
\* tag minted by the other instance's turn_on.
C19_InstanceIsolation == C19_Frame /\ []C19_OwnTagsOnly

\* both LightScenes have turned on, and the one in focus has handled a
\* state-change event that carries the tag the other one minted
C19_Witness ==
    /\ OtherInternalContexts \cap TurnOnTagsOf(3 - focus) # {}
    /\ internal_contexts = {}
    /\ wrote[1].written /\ kind[1] = "on"
    /\ \E e \in Events :
          /\ evt_tag[e] \in TurnOnTagsOf(3 - focus)
          /\ evt_result[e] = "external"

(* ------------------------------- liveness ------------------------------ *)
\* every step of the program and of the reproduce tasks; the calls and
\* events of the platform are not required to happen
CallProgress ==
    \/ \E t \in Calls : TaskStart(t) \/ TaskSettle(t) \/ TaskCancelLand(t)
    \/ \E t \in Calls : \E r \in {"ok", "failed", "cancelled"} : TaskFinish(t, r)
    \/ \E c \in Calls :
          \/ CancelInFlight(c) \/ DrainResume(c) \/ WaitGate(c)
          \/ GateResume(c) \/ TurnOnBody(c) \/ TurnOffBody(c)
          \/ StartReproduce(c) \/ ReproduceResume(c) \/ Finally(c)

Progress ==
    \/ CallProgress
    \/ \E c \in Calls : TimeoutFire(c) \/ TimeoutDrainResume(c)
    \/ \E a \in Acts : ActivationStart(a) \/ ActivationResume(a)
    \/ \E e \in Events : ProcessStateChanged(e)

\* The event loop runs every callback of its ready queue, and a reproduce
\* task ends: it completes, fails or is cancelled (by a drain, or by
\* wait_for after REPRODUCE_TIMEOUT_SECONDS), and a cancelled task finishes.
LiveNext ==
    \/ \E c \in Calls : \E b \in Requests :
          Stimuli < MaxLiveStimuli /\ Invoke(c, "on", b)
    \/ \E c \in Calls :
          Stimuli < MaxLiveStimuli /\ Invoke(c, "off", NoBrightness)
    \/ \E a \in Acts : Stimuli < MaxLiveStimuli /\ ActivationEvent(a)
    \/ \E e \in Events : \E tag \in EventTags :
          Stimuli < MaxLiveStimuli /\ StateChangedEvent(e, tag)
    \/ \E c \in Calls : TimeoutDue(c)
    \/ Progress
LiveSpec == Init /\ [][LiveNext]_vars /\ WF_vars(Progress)

(* ------------------------- cancellation from outside ------------------- *)
\* the turn_on / turn_off calls alone, without timeouts, which their
\* caller may cancel
CancelNext ==
    \/ \E c \in Calls : \E b \in Requests : Invoke(c, "on", b)
    \/ \E c \in Calls : Invoke(c, "off", NoBrightness)
    \/ \E c \in Calls : ExternalCancel(c)
    \/ CallProgress

CancelSpec == Init /\ [][CancelNext]_vars

(* ------------------------------- teardown ------------------------------ *)
\* the entity with its calls and events, torn down at any moment
TeardownNext == LiveNext \/ Teardown

TeardownSpec == Init /\ [][TeardownNext]_vars

(* ---------------------------- two LightScenes -------------------------- *)
\* two LightScenes on one event loop, each with its calls and events; the
\* reproduce tasks complete or are cancelled
PairNext ==
    \/ \E c \in Calls : \E b \in Requests :
          Stimuli < MaxPairStimuli /\ Invoke(c, "on", b)
    \/ \E c \in Calls :
          Stimuli < MaxPairStimuli /\ Invoke(c, "off", NoBrightness)
    \/ \E a \in Acts : Stimuli < MaxPairStimuli /\ ActivationEvent(a)
    \/ \E e \in Events : \E tag \in EventTags :
          Stimuli < MaxPairStimuli /\ StateChangedEvent(e, tag)
    \/ \E t \in Calls : TaskStart(t) \/ TaskSettle(t) \/ TaskCancelLand(t)
    \/ \E t \in Calls : \E r \in {"ok", "cancelled"} : TaskFinish(t, r)
    \/ \E c \in Calls :
          \/ CancelInFlight(c) \/ DrainResume(c) \/ WaitGate(c)
          \/ GateResume(c) \/ TurnOnBody(c) \/ TurnOffBody(c)
          \/ StartReproduce(c) \/ ReproduceResume(c) \/ Finally(c)
    \/ \E a \in Acts : ActivationStart(a) \/ ActivationResume(a)
    \/ \E e \in Events : ProcessStateChanged(e)
    \/ Swap

PairSpec == Init /\ [][PairNext]_vars

====
